---- MODULE Spec2Model ----
(***************************************************************************)
(* Model of the agent_engine orchestration core: Planner.create_plan /     *)
(* replan, ToolRouter, Executor.execute_subtask (self-check, single        *)
(* retry, fallback), Memory / TaskState bookkeeping and the outer loop of  *)
(* AgentCore.run_task.                                                     *)
(*                                                                         *)
(* Strings are abstracted by what the code looks at: a task or a subtask   *)
(* description is the set of keywords it contains as substrings once       *)
(* lowercased; a tool output record is the shape of the fields that        *)
(* self_check and the prompt rewriter inspect.                             *)
(***************************************************************************)
EXTENDS Integers, Sequences, FiniteSets, TLC

VARIABLES
    task,            \* run_task argument: [empty, kws]
    registry,        \* Executor.tool_registry: the set of registered tool names
    pc,              \* position in run_task / execute_subtask
    status,          \* TaskState.status
    plan,            \* TaskState.plan.subtasks (the live list); <<>> while no plan
    subtask_results, \* TaskState.subtask_results
    replans,         \* TaskState.metadata["replans"]
    started,         \* TaskState.metadata["started_subtasks"] (ids)
    current_subtask_id, \* Memory.current_subtask_id
    tool_outputs,    \* Memory.tool_outputs: subtask id -> output record
    history,         \* Memory.history
    i,               \* run_task local: index into plan.subtasks
    replans_done,    \* run_task local
    result,          \* run_task local: value returned by execute_subtask
    allow_retry,     \* execute_subtask parameter of the active invocation
    tool_name,       \* execute_subtask local: tool chosen by the router
    provisional,     \* execute_subtask local: provisional SubtaskResult
    check,           \* execute_subtask local: CheckResult of the primary output
    calls,           \* tool invocations made by the current top-level call
    replan_calls,    \* number of Planner.replan invocations in this run
    validation,      \* outcome of the last validate_task_plan call
    candidates,      \* Planner.create_plan local: the candidate plans
    verdicts,        \* self_check evaluations made by the current top-level call
    traces,          \* Memory.traces[subtask id]: event types of the current subtask
    _STORAGE,        \* save_output._STORAGE: key -> payload, process-wide
    saves,           \* save_output calls that returned: [label, key, stored]
    saving,          \* save_output calls in progress: caller -> [label, key]
    request,         \* the RunRequest of POST /run being handled
    response,        \* the HTTP response sent for it
    faults           \* number of tool invocations that deviated so far

vars == <<task, registry, pc, status, plan, subtask_results, replans, started,
          current_subtask_id, tool_outputs, history, i, replans_done, result,
          allow_retry, tool_name, provisional, check, calls, replan_calls,
          validation, candidates, verdicts, traces, _STORAGE, saves, saving,
          request, response, faults>>

\* the process-wide store of the persistence tool and its callers
storeVars == <<_STORAGE, saves, saving>>

\* the HTTP exchange of the API layer
requestVars == <<request, response>>

\* no request is being handled: the engine is used as a library
NoRequest == [model |-> "none", max_steps |-> 0, enable_replanning |-> FALSE]

NoResponse == [status_code |-> 0, error |-> <<>>, status |-> "none", steps |-> 0]

-----------------------------------------------------------------------------
(* Bounds *)

\* at most this many tool invocations per run return something else than the
\* invoked tool's regular output (or raise)
MaxFaults == 2

\* longest results list handed to finish_task when it is run on its own
MaxResults == 6

\* most routing keywords in the description of a subtask executed on its own
MaxKeywords == 2

\* longest plan handed to validate_task_plan when it is run on its own
MaxPlanLen == 16

\* self_check evaluations made when self_check is run on its own
MaxChecks == 2

\* most candidate plans handed to _select_best_plan when it is run on its own
MaxCandidates == 3

\* save_output calls made when the persistence tool is run on its own
MaxSaves == 3

-----------------------------------------------------------------------------
(* schemas.py *)

GENERATE_TEXT == "generate_text"
SEARCH_IN_FILES == "search_in_files"
MODIFY_DATA == "modify_data"
SAVE_OUTPUT == "save_output"

ToolName == {GENERATE_TEXT, SEARCH_IN_FILES, MODIFY_DATA, SAVE_OUTPUT}

SUCCEEDED == "succeeded"
FAILED == "failed"

Subtask(id, kws, tool, deps) ==
    [id |-> id, desc |-> kws, tool |-> tool, dependencies |-> deps]

NoError == [prefix |-> "none", text |-> ""]

SubtaskResult(id, st, out, err) ==
    [subtask_id |-> id, status |-> st, output |-> out, error |-> err]

Ids(subtasks) == [k \in 1..Len(subtasks) |-> subtasks[k].id]

SeqToSet(s) == {s[k] : k \in 1..Len(s)}

\* the ValueError raised by validate_task_plan, by what its message holds:
\* the rule, the count (count rule), the subtask id and the unknown
\* dependency ids (dependency rule); rule "ok" when nothing is raised
ValidationError(rule, num, sid, unknown) ==
    [rule |-> rule, count |-> num, subtask |-> sid, unknown |-> unknown]

NoValidation == ValidationError("none", 0, "", <<>>)

\* variant: the membership filter is dropped
UnknownDependenciesUnfiltered(subtask, known_ids) == subtask.dependencies

\* unknown = [d for d in s.dependencies if d not in known_ids]
UnknownDependencies(subtask, known_ids) ==
    SelectSeq(subtask.dependencies, LAMBDA d : d \notin known_ids)

\* variant: the lower bound is exclusive
MinPlanSizeExclusive == 5 + 1

MinPlanSize == 5
MaxPlanSize == 15

\* variant: the uniqueness rule is missing
validate_task_planWithoutUniqueness(subtasks) ==
    LET num == Len(subtasks)
        known_ids == SeqToSet(Ids(subtasks))
        offending == {k \in 1..num : UnknownDependencies(subtasks[k], known_ids) # <<>>}
    IN  IF ~(MinPlanSize <= num /\ num <= MaxPlanSize)
        THEN ValidationError("count", num, "", <<>>)
        ELSE IF offending # {}
        THEN LET first == CHOOSE k \in offending : \A j \in offending : k <= j
             IN  ValidationError("dependency", 0, subtasks[first].id,
                                 UnknownDependencies(subtasks[first], known_ids))
        ELSE ValidationError("ok", 0, "", <<>>)

\* variant: uniqueness is tested before the count
validate_task_planUniquenessFirst(subtasks) ==
    LET num == Len(subtasks)
        ids == Ids(subtasks)
        known_ids == SeqToSet(ids)
        offending == {k \in 1..num : UnknownDependencies(subtasks[k], known_ids) # <<>>}
    IN  IF Len(ids) # Cardinality(known_ids)
        THEN ValidationError("duplicate", 0, "", <<>>)
        ELSE IF ~(MinPlanSize <= num /\ num <= MaxPlanSize)
        THEN ValidationError("count", num, "", <<>>)
        ELSE IF offending # {}
        THEN LET first == CHOOSE k \in offending : \A j \in offending : k <= j
             IN  ValidationError("dependency", 0, subtasks[first].id,
                                 UnknownDependencies(subtasks[first], known_ids))
        ELSE ValidationError("ok", 0, "", <<>>)

\* validate_task_plan: the error it raises, or rule "ok"
validate_task_plan(subtasks) ==
    LET num == Len(subtasks)
        ids == Ids(subtasks)
        known_ids == SeqToSet(ids)
        offending == {k \in 1..num : UnknownDependencies(subtasks[k], known_ids) # <<>>}
    IN  IF ~(MinPlanSize <= num /\ num <= MaxPlanSize)
        THEN ValidationError("count", num, "", <<>>)
        ELSE IF Len(ids) # Cardinality(known_ids)
        THEN ValidationError("duplicate", 0, "", <<>>)
        ELSE IF offending # {}
        THEN LET first == CHOOSE k \in offending : \A j \in offending : k <= j
             IN  ValidationError("dependency", 0, subtasks[first].id,
                                 UnknownDependencies(subtasks[first], known_ids))
        ELSE ValidationError("ok", 0, "", <<>>)

-----------------------------------------------------------------------------
(* Tool output records, by the fields the core inspects *)

Output(text, results, summary, stored, key) ==
    [text |-> text, results |-> results, summary |-> summary,
     stored |-> stored, key |-> key]

OutEmpty     == Output("absent", "absent", "absent", "absent", FALSE)
OutGenerated == Output("marked", "absent", "absent", "absent", FALSE)
OutPlainText == Output("unmarked", "absent", "absent", "absent", FALSE)
OutResults   == Output("absent", "some", "absent", "absent", FALSE)
OutNoResults == Output("absent", "empty", "absent", "absent", FALSE)
OutNullResults == Output("absent", "none", "absent", "absent", FALSE)
OutModified  == Output("absent", "absent", "marked", "absent", FALSE)
OutStored    == Output("absent", "absent", "absent", "true", TRUE)

\* the records a tool invocation may return
OutputRecords == {OutGenerated, OutPlainText, OutResults, OutNoResults,
                  OutNullResults, OutModified, OutStored}

\* what the tools shipped in TOOL_REGISTRY return on a regular call
RegularOutput(tool) ==
    CASE tool = GENERATE_TEXT -> OutGenerated
      [] tool = SEARCH_IN_FILES -> OutResults
      [] tool = MODIFY_DATA -> OutModified
      [] tool = SAVE_OUTPUT -> OutStored

\* str(exc) of the exceptions tried; "" is str() of an exception without message
ExcTexts == {"boom", ""}

\* outcome of one tool invocation: an output record or a raised exception
Returned(out) == [raised |-> FALSE, output |-> out, exc |-> ""]
Raised(msg) == [raised |-> TRUE, output |-> OutEmpty, exc |-> msg]

Outcomes == {Returned(o) : o \in OutputRecords} \cup {Raised(m) : m \in ExcTexts}

-----------------------------------------------------------------------------
(* planner.py *)

RoutingKeywords == {"search", "lookup", "save", "store", "modify", "transform", "refine"}

\* TaskSimplifier.simplify + run_task line 84: the string handed to the planner.
\* Splitting on " and " and re-joining with "; " neither removes nor creates an
\* occurrence of a keyword, so the keyword set of the task is kept.
PlanningTask(t) == t.kws

\* variant: the research template's last step depends on a step that is not there
_fake_llm_planDanglingDependency(kws) ==
    IF "birthday" \in kws \/ "party" \in kws THEN
        << Subtask("step-1", {}, GENERATE_TEXT, <<>>),
           Subtask("step-2", {}, GENERATE_TEXT, <<"step-1">>),
           Subtask("step-3", {}, GENERATE_TEXT, <<"step-2">>),
           Subtask("step-4", {"refine"}, MODIFY_DATA, <<"step-2">>),
           Subtask("step-5", {"save"}, SAVE_OUTPUT, <<"step-3", "step-4">>) >>
    ELSE IF "research" \in kws \/ "study" \in kws THEN
        << Subtask("step-1", {"search"}, GENERATE_TEXT, <<>>),
           Subtask("step-2", {}, GENERATE_TEXT, <<"step-1">>),
           Subtask("step-3", {"search"}, SEARCH_IN_FILES, <<"step-2">>),
           Subtask("step-4", {}, MODIFY_DATA, <<"step-3">>),
           Subtask("step-5", {"search", "save"}, SAVE_OUTPUT, <<"step-6">>) >>
    ELSE
        << Subtask("step-1", kws \cap RoutingKeywords, GENERATE_TEXT, <<>>),
           Subtask("step-2", {}, GENERATE_TEXT, <<"step-1">>),
           Subtask("step-3", {"search"}, SEARCH_IN_FILES, <<"step-2">>),
           Subtask("step-4", {"transform"}, MODIFY_DATA, <<"step-2", "step-3">>),
           Subtask("step-5", {"save"}, SAVE_OUTPUT, <<"step-4">>) >>

_fake_llm_plan(kws) ==
    IF "birthday" \in kws \/ "party" \in kws THEN
        << Subtask("step-1", {}, GENERATE_TEXT, <<>>),
           Subtask("step-2", {}, GENERATE_TEXT, <<"step-1">>),
           Subtask("step-3", {}, GENERATE_TEXT, <<"step-2">>),
           Subtask("step-4", {"refine"}, MODIFY_DATA, <<"step-2">>),
           Subtask("step-5", {"save"}, SAVE_OUTPUT, <<"step-3", "step-4">>) >>
    ELSE IF "research" \in kws \/ "study" \in kws THEN
        << Subtask("step-1", {"search"}, GENERATE_TEXT, <<>>),
           Subtask("step-2", {}, GENERATE_TEXT, <<"step-1">>),
           Subtask("step-3", {"search"}, SEARCH_IN_FILES, <<"step-2">>),
           Subtask("step-4", {}, MODIFY_DATA, <<"step-3">>),
           Subtask("step-5", {"search", "save"}, SAVE_OUTPUT, <<"step-4">>) >>
    ELSE
        << Subtask("step-1", kws \cap RoutingKeywords, GENERATE_TEXT, <<>>),
           Subtask("step-2", {}, GENERATE_TEXT, <<"step-1">>),
           Subtask("step-3", {"search"}, SEARCH_IN_FILES, <<"step-2">>),
           Subtask("step-4", {"transform"}, MODIFY_DATA, <<"step-2", "step-3">>),
           Subtask("step-5", {"save"}, SAVE_OUTPUT, <<"step-4">>) >>

\* _generate_candidate_plans line 235: "" for the first candidate
VariantSuffix(k) == IF k = 1 THEN {} ELSE {"(variant " \o ToString(k) \o ")"}

\* lines 234-245: a copy of the subtasks with the suffix added to each description
Variant(subtasks, k) ==
    [j \in 1..Len(subtasks) |->
        [subtasks[j] EXCEPT !.desc = subtasks[j].desc \cup VariantSuffix(k)]]

\* candidate k of n: the base subtasks, description suffixed " (variant k)" for
\* k > 1 (the suffix holds no routing keyword)
_generate_candidate_plans(kws, n) ==
    [k \in 1..n |-> [variant |-> k, subtasks |-> Variant(_fake_llm_plan(kws), k)]]

Tools(subtasks) == {subtasks[k].tool : k \in 1..Len(subtasks)}

Min(a, b) == IF a <= b THEN a ELSE b

_score_plan(subtasks) ==
    (IF SEARCH_IN_FILES \in Tools(subtasks) THEN 2 ELSE 0)
    + (IF SAVE_OUTPUT \in Tools(subtasks) THEN 2 ELSE 0)
    + Min(Len(subtasks), 10)

\* variant: the last candidate of maximal score is taken
_select_best_planLast(cands) ==
    LET best == CHOOSE k \in 1..Len(cands) :
                  /\ \A j \in 1..Len(cands) :
                        _score_plan(cands[j].subtasks) <= _score_plan(cands[k].subtasks)
                  /\ \A j \in (k + 1)..Len(cands) :
                        _score_plan(cands[j].subtasks) < _score_plan(cands[k].subtasks)
    IN  cands[best]

\* max(scored, key=score): the first candidate of maximal score
_select_best_plan(cands) ==
    LET best == CHOOSE k \in 1..Len(cands) :
                  /\ \A j \in 1..Len(cands) :
                        _score_plan(cands[j].subtasks) <= _score_plan(cands[k].subtasks)
                  /\ \A j \in 1..(k - 1) :
                        _score_plan(cands[j].subtasks) < _score_plan(cands[k].subtasks)
    IN  cands[best]

create_plan(kws) == _select_best_plan(_generate_candidate_plans(kws, 3))

\* Planner.replan: <<>> stands for None
replan(t) ==
    IF t.empty THEN <<>>
    ELSE << Subtask("replan-1", {}, GENERATE_TEXT, <<>>),
            Subtask("replan-2", {"save"}, SAVE_OUTPUT, <<"replan-1">>) >>

-----------------------------------------------------------------------------
(* executor.py: router and self-check *)

\* variant: the save/store test comes before the search/lookup test
choose_toolSaveFirst(subtask, reg) ==
    IF subtask.tool \in reg THEN subtask.tool
    ELSE IF "save" \in subtask.desc \/ "store" \in subtask.desc THEN SAVE_OUTPUT
    ELSE IF "search" \in subtask.desc \/ "lookup" \in subtask.desc THEN SEARCH_IN_FILES
    ELSE IF "modify" \in subtask.desc \/ "transform" \in subtask.desc
            \/ "refine" \in subtask.desc THEN MODIFY_DATA
    ELSE GENERATE_TEXT

\* ToolRouter.choose_tool
choose_tool(subtask, reg) ==
    IF subtask.tool \in reg THEN subtask.tool
    ELSE IF "search" \in subtask.desc \/ "lookup" \in subtask.desc THEN SEARCH_IN_FILES
    ELSE IF "save" \in subtask.desc \/ "store" \in subtask.desc THEN SAVE_OUTPUT
    ELSE IF "modify" \in subtask.desc \/ "transform" \in subtask.desc
            \/ "refine" \in subtask.desc THEN MODIFY_DATA
    ELSE GENERATE_TEXT

\* "none" stands for None
choose_fallback(original_tool) ==
    IF original_tool = SEARCH_IN_FILES THEN GENERATE_TEXT ELSE "none"

CheckResult(s, r, why) == [success |-> s, retry |-> r, reasoning |-> why]

NoCheck == CheckResult(FALSE, FALSE, "unset")

\* variant: the search heuristic never recommends a retry
self_checkWithoutRetry(tool, out) ==
    CASE tool = GENERATE_TEXT ->
            CheckResult(out.text = "marked", FALSE, "generation")
      [] tool = SEARCH_IN_FILES ->
            CheckResult(out.results = "some", FALSE, "search")
      [] tool = MODIFY_DATA ->
            CheckResult(out.summary = "marked", FALSE, "transform")
      [] tool = SAVE_OUTPUT ->
            CheckResult(out.stored = "true" /\ out.key, FALSE, "persistence")
      [] OTHER -> CheckResult(FALSE, FALSE, "Unknown tool type; assuming failure.")

\* variant: a summary counts as soon as it is present (the docstring's rule)
self_checkSummaryPresent(tool, out) ==
    CASE tool = GENERATE_TEXT ->
            CheckResult(out.text = "marked", FALSE, "generation")
      [] tool = SEARCH_IN_FILES ->
            CheckResult(out.results = "some", out.results # "some", "search")
      [] tool = MODIFY_DATA ->
            CheckResult(out.summary # "absent", FALSE, "transform")
      [] tool = SAVE_OUTPUT ->
            CheckResult(out.stored = "true" /\ out.key, FALSE, "persistence")
      [] OTHER -> CheckResult(FALSE, FALSE, "Unknown tool type; assuming failure.")

\* variant: a search also counts as successful once Memory holds earlier outputs
self_checkUsesMemory(tool, out) ==
    CASE tool = GENERATE_TEXT ->
            CheckResult(out.text = "marked", FALSE, "generation")
      [] tool = SEARCH_IN_FILES ->
            LET success == out.results = "some" \/ DOMAIN tool_outputs # {}
            IN  CheckResult(success, ~success, "search")
      [] tool = MODIFY_DATA ->
            CheckResult(out.summary = "marked", FALSE, "transform")
      [] tool = SAVE_OUTPUT ->
            CheckResult(out.stored = "true" /\ out.key, FALSE, "persistence")
      [] OTHER -> CheckResult(FALSE, FALSE, "Unknown tool type; assuming failure.")

\* Executor.self_check; tool is subtask.tool. Field values: text "absent",
\* "empty", "unmarked" (no 'Generated:'), "marked"; results "absent", "none"
\* (None), "empty", "some"; summary "absent", "nonstring", "unmarked" (no
\* 'Modified data'), "marked"; stored "absent", "false", "true"; key: present
self_check(tool, out) ==
    CASE tool = GENERATE_TEXT ->
            LET success == out.text = "marked"
            IN  CheckResult(success, FALSE,
                    IF success THEN "Output contains generated text."
                    ELSE "Missing or empty generated text.")
      [] tool = SEARCH_IN_FILES ->
            LET success == out.results = "some"
            IN  CheckResult(success, ~success,
                    IF success THEN "Found mock search results."
                    ELSE "No search results were returned.")
      [] tool = MODIFY_DATA ->
            LET success == out.summary = "marked"
            IN  CheckResult(success, FALSE,
                    IF success THEN "Summary of modified data present."
                    ELSE "Summary of modifications missing.")
      [] tool = SAVE_OUTPUT ->
            LET success == out.stored = "true" /\ out.key
            IN  CheckResult(success, FALSE,
                    IF success THEN "Output stored with a key."
                    ELSE "Output was not confirmed as stored.")
      [] OTHER -> CheckResult(FALSE, FALSE, "Unknown tool type; assuming failure.")

\* PromptRewriter._summarize_output raises TypeError on len(None): the output
\* has no "text" field and a "results" field that is None
SummarizeRaises(out) == out.text = "absent" /\ out.results = "none"

\* PromptRewriter.rewrite raises while summarising a dependency's recorded output
RewriteRaises(subtask, outputs) ==
    \E d \in 1..Len(subtask.dependencies) :
        /\ subtask.dependencies[d] \in DOMAIN outputs
        /\ SummarizeRaises(outputs[subtask.dependencies[d]])

-----------------------------------------------------------------------------
(* Inputs *)

\* keyword sets of the task strings tried ("research" contains "search")
TaskKeywords == { {}, {"party"}, {"study"}, {"research", "search"}, {"search"} }

Tasks == {[empty |-> FALSE, kws |-> k] : k \in TaskKeywords}
         \cup {[empty |-> TRUE, kws |-> {}]}

Registries == { ToolName,
                ToolName \ {SAVE_OUTPUT},
                ToolName \ {GENERATE_TEXT} }

-----------------------------------------------------------------------------
(* state.py / memory.py *)

\* variant: the status is that of the last result
finish_taskLastResult(results) ==
    IF Len(results) = 0 THEN "failed"
    ELSE IF results[Len(results)].status = FAILED THEN "failed"
    ELSE "succeeded"

\* variant: any failure makes the task failed
finish_taskWithoutPartial(results) ==
    IF Len(results) = 0 THEN "failed"
    ELSE IF \E k \in 1..Len(results) : results[k].status = FAILED THEN "failed"
    ELSE "succeeded"

\* TaskState.finish_task: the status it sets
finish_task(results) ==
    IF Len(results) = 0 THEN "failed"
    ELSE IF \E k \in 1..Len(results) : results[k].status = FAILED
         THEN IF \E k \in 1..Len(results) : results[k].status = SUCCEEDED
              THEN "partial_success" ELSE "failed"
    ELSE "succeeded"

\* Memory.record_result: the history event
HistoryEvent(res) ==
    [subtask_id |-> res.subtask_id, status |-> res.status, error |-> res.error]

\* variant: memory.record_result is skipped for failed results
_update_after_executionSkipsFailedHistory(res) ==
    /\ subtask_results' = Append(subtask_results, res)
    /\ tool_outputs' = (res.subtask_id :> res.output) @@ tool_outputs
    /\ history' = IF res.status = FAILED THEN history
                  ELSE Append(history, HistoryEvent(res))

\* variant: state.finish_subtask is called twice for failed results
_update_after_executionRecordsTwice(res) ==
    /\ subtask_results' = IF res.status = FAILED
                          THEN Append(Append(subtask_results, res), res)
                          ELSE Append(subtask_results, res)
    /\ tool_outputs' = (res.subtask_id :> res.output) @@ tool_outputs
    /\ history' = Append(history, HistoryEvent(res))

\* Executor._update_after_execution: state.finish_subtask + memory.record_result
_update_after_execution(res) ==
    /\ subtask_results' = Append(subtask_results, res)
    /\ tool_outputs' = (res.subtask_id :> res.output) @@ tool_outputs
    /\ history' = Append(history, HistoryEvent(res))

-----------------------------------------------------------------------------
(* core.py / executor.py: the run *)

NoResult == SubtaskResult("none", "pending", OutEmpty, NoError)

Init ==
    /\ task \in Tasks
    /\ registry \in Registries
    /\ pc = "idle"
    /\ status = "not_started"
    /\ plan = <<>>
    /\ subtask_results = <<>>
    /\ replans = <<>>
    /\ started = <<>>
    /\ current_subtask_id = "none"
    /\ tool_outputs = <<>>
    /\ history = <<>>
    /\ i = 0
    /\ replans_done = 0
    /\ result = NoResult
    /\ allow_retry = TRUE
    /\ tool_name = "none"
    /\ provisional = NoResult
    /\ check = NoCheck
    /\ calls = <<>>
    /\ replan_calls = 0
    /\ validation = NoValidation
    /\ candidates = <<>>
    /\ verdicts = <<>>
    /\ traces = <<>>
    /\ _STORAGE = <<>>
    /\ saves = <<>>
    /\ saving = <<>>
    /\ request = NoRequest
    /\ response = NoResponse
    /\ faults = 0

\* variant: the list is walked from its end
CurrentSubtaskReversed == plan[Len(plan) - i]

\* the subtask run_task is working on (Python index i)
CurrentSubtask == plan[i + 1]

\* run_task lines 76-92: start_task, simplify, create_plan (which validates)
RunTaskPlan ==
    /\ pc = "idle"
    /\ status' = "running"
    /\ LET best == create_plan(PlanningTask(task))
       IN  /\ candidates' = _generate_candidate_plans(PlanningTask(task), 3)
           /\ validation' = validate_task_plan(best.subtasks)
           /\ IF validate_task_plan(best.subtasks).rule = "ok"
              THEN /\ plan' = best.subtasks
                   /\ pc' = "loop"
              ELSE /\ plan' = plan
                   /\ pc' = "plan_rejected"
    /\ i' = 0
    /\ replans_done' = 0
    /\ UNCHANGED <<task, registry, subtask_results, replans, started,
                   current_subtask_id, tool_outputs, history, result,
                   allow_retry, tool_name, provisional, check, calls,
                   replan_calls, verdicts, traces, storeVars, requestVars, faults>>

\* run_task lines 93-107: loop head up to the call of execute_subtask
StartSubtask ==
    /\ pc = "loop"
    /\ i < Len(plan)
    /\ started' = Append(started, CurrentSubtask.id)
    /\ current_subtask_id' = CurrentSubtask.id
    /\ allow_retry' = TRUE
    /\ calls' = <<>>
    /\ verdicts' = <<>>
    /\ traces' = <<>>
    /\ pc' = "execute"
    /\ UNCHANGED <<task, validation, candidates, storeVars, requestVars, registry, status, plan,
                   subtask_results, replans,
                   tool_outputs, history, i, replans_done, result, tool_name,
                   provisional, check, replan_calls, faults>>

\* variant: the message does not name the tool
RegistryMissErrorUnnamed(tn) == [prefix |-> "No tool registered for ", text |-> "none"]

\* execute_subtask line 126: the error of a registry miss
RegistryMissError(tn) == [prefix |-> "No tool registered for ", text |-> tn]

\* Memory.record_trace(subtask.id, event): the event's type is appended to the
\* subtask's trace
record_trace(events) == traces' = traces \o events

\* variant: the payload carries only the outputs of the declared dependencies
_build_payloadDependenciesOnly(subtask, tool, outputs) ==
    [subtask_id |-> subtask.id, tool |-> tool,
     previous_outputs |->
        [id \in DOMAIN outputs \cap SeqToSet(subtask.dependencies) |-> outputs[id]]]

\* Executor._build_payload: previous_outputs = dict(self.memory.tool_outputs)
_build_payload(subtask, tool, outputs) ==
    [subtask_id |-> subtask.id, tool |-> tool, previous_outputs |-> outputs]

\* execute_subtask lines 105-157: routing, registry miss, prompt rewriting
ExecSelect ==
    /\ pc = "execute"
    /\ LET subtask == CurrentSubtask
           tn == choose_tool(subtask, registry)
       IN  /\ tool_name' = tn
           /\ IF tn \notin registry
              THEN LET res == SubtaskResult(subtask.id, FAILED, OutEmpty, RegistryMissError(tn))
                   IN  /\ _update_after_execution(res)
                       /\ result' = res
                       /\ record_trace(<<"thought">>)
                       /\ pc' = "returned"
              ELSE /\ pc' = IF RewriteRaises(subtask, tool_outputs) THEN "raised" ELSE "invoke"
                   /\ record_trace(IF RewriteRaises(subtask, tool_outputs)
                                   THEN <<"thought">> ELSE <<"thought", "action">>)
                   /\ UNCHANGED <<subtask_results, tool_outputs, history, result>>
    /\ UNCHANGED <<task, validation, candidates, verdicts, storeVars, requestVars, registry, status, plan, replans, started,
                   current_subtask_id, i, replans_done, allow_retry,
                   provisional, check, calls, replan_calls, faults>>

\* a tool invocation that deviates from the tool's regular output uses up a fault
Deviates(tool, oc) == oc # Returned(RegularOutput(tool))

CountFault(tool, oc) ==
    /\ Deviates(tool, oc) => faults < MaxFaults
    /\ faults' = IF Deviates(tool, oc) THEN faults + 1 ELSE faults

Invocation(tool, kind, oc, payload) ==
    [tool |-> tool, kind |-> kind, outcome |-> oc, payload |-> payload]

\* variant: the observation event is recorded whether or not the tool raised
ObservationTraceAlways(oc) == <<"observation">>

\* execute_subtask lines 175-183 and 234-242: reached only if the tool returned
ObservationTrace(oc) == IF oc.raised THEN <<>> ELSE <<"observation">>

\* variant: the critique event is recorded after every self-check
CritiqueTraceUnconditional(oc, chk) == IF ~oc.raised THEN <<"critique">> ELSE <<>>

\* execute_subtask lines 195-210: recorded when the self-check failed
CritiqueTrace(oc, chk) == IF ~oc.raised /\ ~chk.success THEN <<"critique">> ELSE <<>>

\* one evaluation of self_check, with the Memory outputs at that moment
VerdictEntry(tool, out) ==
    [tool |-> tool, output |-> out, memory |-> tool_outputs,
     verdict |-> self_check(tool, out)]

\* variant: a fixed message instead of str(exc)
ExceptionErrorGeneric(msg) == [prefix |-> "Tool raised error", text |-> ""]

ExceptionError(msg) == [prefix |-> "", text |-> msg]

SelfCheckError(chk) == [prefix |-> "Self-check failed: ", text |-> chk.reasoning]

FallbackError(msg) == [prefix |-> "Fallback tool error: ", text |-> msg]

\* execute_subtask line 221: the fallback tool is tried
FallbackApplies(retryAllowed, tn, reg) ==
    /\ retryAllowed
    /\ choose_fallback(tn) # "none"
    /\ choose_fallback(tn) \in reg

\* variant: the failed first attempt is recorded before the retry
RetryAttemptRecorded(prov, chk) ==
    /\ provisional' = prov
    /\ check' = chk
    /\ _update_after_execution([prov EXCEPT !.status = FAILED,
                                            !.error = SelfCheckError(chk)])
    /\ UNCHANGED result

\* execute_subtask lines 211-217: the first attempt returns nothing of its own
\* and records nothing; the recursive call does
RetryAttempt(prov, chk) ==
    /\ provisional' = prov
    /\ check' = chk
    /\ UNCHANGED <<subtask_results, tool_outputs, history, result>>

\* variant: the retry may itself be retried
RetryAllowRetryKept(retryAllowed) == retryAllowed

\* execute_subtask line 217: the retry is made with allow_retry=False
RetryAllowRetry(retryAllowed) == FALSE

\* execute_subtask lines 159-221 and 262-266: primary tool call and self-check
ExecInvoke ==
    /\ pc = "invoke"
    /\ \E oc \in Outcomes :
        LET subtask == CurrentSubtask
            prov == SubtaskResult(subtask.id, SUCCEEDED, oc.output, NoError)
            chk == self_check(subtask.tool, oc.output)
        IN  /\ CountFault(tool_name, oc)
            /\ calls' = Append(calls, Invocation(tool_name, "primary", oc,
                                   _build_payload(subtask, tool_name, tool_outputs)))
            /\ verdicts' = IF oc.raised THEN verdicts
                           ELSE Append(verdicts, VerdictEntry(subtask.tool, oc.output))
            /\ record_trace(ObservationTrace(oc) \o CritiqueTrace(oc, chk))
            /\ IF oc.raised
               THEN LET res == SubtaskResult(subtask.id, FAILED, OutEmpty, ExceptionError(oc.exc))
                    IN  /\ _update_after_execution(res)
                        /\ result' = res
                        /\ pc' = "returned"
                        /\ UNCHANGED <<allow_retry, provisional, check>>
               ELSE IF chk.success
               THEN /\ _update_after_execution(prov)
                    /\ result' = prov
                    /\ provisional' = prov
                    /\ check' = chk
                    /\ pc' = "returned"
                    /\ UNCHANGED allow_retry
               ELSE IF allow_retry /\ chk.retry
               THEN /\ allow_retry' = RetryAllowRetry(allow_retry)
                    /\ RetryAttempt(prov, chk)
                    /\ pc' = "execute"
               ELSE IF FallbackApplies(allow_retry, tool_name, registry)
               THEN /\ provisional' = prov
                    /\ check' = chk
                    /\ pc' = "fallback"
                    /\ UNCHANGED <<subtask_results, tool_outputs, history, result, allow_retry>>
               ELSE LET res == [prov EXCEPT !.status = FAILED, !.error = SelfCheckError(chk)]
                    IN  /\ _update_after_execution(res)
                        /\ result' = res
                        /\ provisional' = res
                        /\ check' = chk
                        /\ pc' = "returned"
                        /\ UNCHANGED allow_retry
    /\ UNCHANGED <<task, validation, candidates, storeVars, requestVars, registry, status, plan,
                   replans, started, current_subtask_id, i, replans_done,
                   tool_name, replan_calls>>

\* execute_subtask lines 227-260: what the fallback attempt leaves in
\* (provisional, check) before line 262
AfterFallback(prov, chk, fb, oc) ==
    IF oc.raised
    THEN [prov |-> [prov EXCEPT !.status = FAILED, !.error = FallbackError(oc.exc)],
          chk |-> chk]
    ELSE LET fb_check == self_check(fb, oc.output)
             withOutput == [prov EXCEPT !.output = oc.output]
         IN  IF fb_check.success
             THEN [prov |-> [withOutput EXCEPT !.status = SUCCEEDED, !.error = NoError],
                   chk |-> fb_check]
             ELSE [prov |-> withOutput, chk |-> chk]

\* execute_subtask lines 262-263: executed on every failed-self-check path
FinalFailure(pv) ==
    [prov |-> [pv.prov EXCEPT !.status = FAILED, !.error = SelfCheckError(pv.chk)],
     chk |-> pv.chk]

\* execute_subtask lines 222-266: fallback tool call up to the return
ExecFallback ==
    /\ pc = "fallback"
    /\ \E oc \in Outcomes :
        LET fb == choose_fallback(tool_name)
            fin == FinalFailure(AfterFallback(provisional, check, fb, oc))
        IN  /\ CountFault(fb, oc)
            /\ calls' = Append(calls, Invocation(fb, "fallback", oc,
                                   _build_payload(CurrentSubtask, fb, tool_outputs)))
            /\ verdicts' = IF oc.raised THEN verdicts
                           ELSE Append(verdicts, VerdictEntry(fb, oc.output))
            /\ record_trace(ObservationTrace(oc))
            /\ provisional' = fin.prov
            /\ check' = fin.chk
            /\ _update_after_execution(fin.prov)
            /\ result' = fin.prov
            /\ pc' = "returned"
    /\ UNCHANGED <<task, validation, candidates, storeVars, requestVars, registry, status, plan,
                   replans, started, current_subtask_id, i, replans_done,
                   allow_retry, tool_name, replan_calls>>

\* variant: the reason has no default
ReplanEntryWithoutDefault(res, recovery) ==
    [reason |-> res.error, recovery_subtasks |-> Ids(recovery)]

\* replans entry: reason = result.error or "subtask_failed"
ReplanEntry(res, recovery) ==
    [reason |-> IF res.error = NoError \/ (res.error.prefix = "" /\ res.error.text = "")
                THEN [prefix |-> "", text |-> "subtask_failed"]
                ELSE res.error,
     recovery_subtasks |-> Ids(recovery)]

\* variant: the replans_done test is dropped
ReplanDueOnEveryFailure(res, done) == res.status = FAILED

\* run_task line 111: a failed result and no replanning so far
ReplanDue(res, done) == res.status = FAILED /\ done = 0

\* run_task lines 111-123: optional replanning, then the next index
AfterSubtask ==
    /\ pc = "returned"
    /\ IF ReplanDue(result, replans_done)
       THEN LET recovery == replan(task)
            IN  /\ replan_calls' = replan_calls + 1
                /\ IF Len(recovery) > 0
                   THEN /\ replans' = Append(replans, ReplanEntry(result, recovery))
                        /\ plan' = plan \o recovery
                        /\ replans_done' = replans_done + 1
                   ELSE UNCHANGED <<replans, plan, replans_done>>
       ELSE UNCHANGED <<replans, plan, replans_done, replan_calls>>
    /\ i' = i + 1
    /\ pc' = "loop"
    /\ UNCHANGED <<task, validation, candidates, verdicts, traces, storeVars, requestVars,
                   registry, status, subtask_results, started,
                   current_subtask_id, tool_outputs, history, result,
                   allow_retry, tool_name, provisional, check, calls, faults>>

\* run_task lines 125-129: finish_task and the summary
FinishTask ==
    /\ pc = "loop"
    /\ i >= Len(plan)
    /\ status' = finish_task(subtask_results)
    /\ pc' = "done"
    /\ UNCHANGED <<task, validation, candidates, verdicts, traces, storeVars, requestVars,
                   registry, plan, subtask_results, replans, started,
                   current_subtask_id, tool_outputs, history, i, replans_done,
                   result, allow_retry, tool_name, provisional, check, calls,
                   replan_calls, faults>>

Next ==
    \/ RunTaskPlan
    \/ StartSubtask
    \/ ExecSelect
    \/ ExecInvoke
    \/ ExecFallback
    \/ AfterSubtask
    \/ FinishTask

Spec == Init /\ [][Next]_vars

\* run_task is sequential code: while a step of it can be taken, one is taken
SpecLive == Spec /\ WF_vars(Next)

-----------------------------------------------------------------------------
(* finish_task on its own: any list of results the executor can have recorded *)

ResultLists ==
    UNION {[1..n -> {SUCCEEDED, FAILED}] : n \in 0..MaxResults}

StepId(k) ==
    CASE k = 1 -> "step-1" [] k = 2 -> "step-2" [] k = 3 -> "step-3"
      [] k = 4 -> "step-4" [] k = 5 -> "step-5" [] k = 6 -> "replan-1"
      [] k = 7 -> "replan-2" [] OTHER -> "step-n"

InitFinish ==
    /\ task \in {[empty |-> FALSE, kws |-> {}]}
    /\ registry = ToolName
    /\ pc = "loop"
    /\ status \in {"not_started", "running"}
    /\ plan = <<>>
    /\ \E sts \in ResultLists :
          /\ subtask_results =
                [k \in 1..Len(sts) |-> SubtaskResult(StepId(k), sts[k], OutEmpty, NoError)]
          /\ history =
                [k \in 1..Len(sts) |-> HistoryEvent(SubtaskResult(StepId(k), sts[k], OutEmpty, NoError))]
    /\ replans = <<>>
    /\ started = <<>>
    /\ current_subtask_id = "none"
    /\ tool_outputs = <<>>
    /\ i = 0
    /\ replans_done = 0
    /\ result = NoResult
    /\ allow_retry = TRUE
    /\ tool_name = "none"
    /\ provisional = NoResult
    /\ check = NoCheck
    /\ calls = <<>>
    /\ replan_calls = 0
    /\ validation = NoValidation
    /\ candidates = <<>>
    /\ verdicts = <<>>
    /\ traces = <<>>
    /\ _STORAGE = <<>>
    /\ saves = <<>>
    /\ saving = <<>>
    /\ request = NoRequest
    /\ response = NoResponse
    /\ faults = 0

NextFinish == FinishTask

SpecFinish == InitFinish /\ [][NextFinish]_vars

-----------------------------------------------------------------------------
(* validate_task_plan on its own: plans of any length, with or without a     *)
(* repeated id, with resolved, self, forward, cyclic and unknown dependencies *)

PlanId(k) == "step-" \o ToString(k)

\* dependency lists tried on the first two subtasks of a plan of n subtasks
DependencyChoices(n) ==
    { <<>>, <<PlanId(1)>>, <<PlanId(2)>>, <<PlanId(1), PlanId(2)>>, <<PlanId(n)>>,
      <<"ghost-1">>, <<"ghost-2">>, <<PlanId(1), "ghost-1", "ghost-2">> }

\* n subtasks; subtask dup (if any) repeats the id of subtask 1; d1 and d2
\* are the dependencies of subtasks 1 and 2
CandidatePlan(n, dup, d1, d2) ==
    [k \in 1..n |->
        Subtask(IF k = dup THEN PlanId(1) ELSE PlanId(k), {}, GENERATE_TEXT,
                IF k = 1 THEN d1 ELSE IF k = 2 THEN d2 ELSE <<>>)]

InitValidate ==
    /\ task \in {[empty |-> FALSE, kws |-> {}]}
    /\ registry = ToolName
    /\ pc = "validate"
    /\ status = "not_started"
    /\ \E n \in 0..MaxPlanLen :
          \E dup \in {0, 2, n} :
             \E d1 \in DependencyChoices(n) :
                \E d2 \in DependencyChoices(n) :
                   plan = CandidatePlan(n, dup, d1, d2)
    /\ subtask_results = <<>>
    /\ replans = <<>>
    /\ started = <<>>
    /\ current_subtask_id = "none"
    /\ tool_outputs = <<>>
    /\ history = <<>>
    /\ i = 0
    /\ replans_done = 0
    /\ result = NoResult
    /\ allow_retry = TRUE
    /\ tool_name = "none"
    /\ provisional = NoResult
    /\ check = NoCheck
    /\ calls = <<>>
    /\ replan_calls = 0
    /\ validation = NoValidation
    /\ candidates = <<>>
    /\ verdicts = <<>>
    /\ traces = <<>>
    /\ _STORAGE = <<>>
    /\ saves = <<>>
    /\ saving = <<>>
    /\ request = NoRequest
    /\ response = NoResponse
    /\ faults = 0

\* one call of validate_task_plan(plan)
ValidatePlan ==
    /\ pc = "validate"
    /\ validation' = validate_task_plan(plan)
    /\ pc' = IF validate_task_plan(plan).rule = "ok" THEN "validated" ELSE "plan_rejected"
    /\ UNCHANGED <<task, candidates, verdicts, traces, storeVars, requestVars, registry, status,
                   plan, subtask_results, replans, started, current_subtask_id, tool_outputs, history, i,
                   replans_done, result, allow_retry, tool_name, provisional,
                   check, calls, replan_calls, faults>>

NextValidate == ValidatePlan

SpecValidate == InitValidate /\ [][NextValidate]_vars

-----------------------------------------------------------------------------
(* execute_subtask on its own: one call on any subtask, with any non-empty   *)
(* registry, as a caller of the Executor can make it                          *)

DescriptionKeywords == {k \in SUBSET RoutingKeywords : Cardinality(k) <= MaxKeywords}

\* an empty registry is replaced by the default one in Executor.__init__
ExecRegistries == (SUBSET ToolName) \ {{}}

InitExec ==
    /\ task \in {[empty |-> FALSE, kws |-> {}]}
    /\ registry \in ExecRegistries
    /\ pc = "execute"
    /\ status = "running"
    /\ \E kws \in DescriptionKeywords :
          \E tool \in ToolName :
             plan = <<Subtask("step-1", kws, tool, <<>>)>>
    /\ subtask_results = <<>>
    /\ replans = <<>>
    /\ started = <<"step-1">>
    /\ current_subtask_id = "step-1"
    /\ tool_outputs = <<>>
    /\ history = <<>>
    /\ i = 0
    /\ replans_done = 0
    /\ result = NoResult
    /\ allow_retry = TRUE
    /\ tool_name = "none"
    /\ provisional = NoResult
    /\ check = NoCheck
    /\ calls = <<>>
    /\ replan_calls = 0
    /\ validation = NoValidation
    /\ candidates = <<>>
    /\ verdicts = <<>>
    /\ traces = <<>>
    /\ _STORAGE = <<>>
    /\ saves = <<>>
    /\ saving = <<>>
    /\ request = NoRequest
    /\ response = NoResponse
    /\ faults = 0

NextExec ==
    \/ ExecSelect
    \/ ExecInvoke
    \/ ExecFallback

SpecExec == InitExec /\ [][NextExec]_vars

-----------------------------------------------------------------------------
(* self_check on its own: every tool category and every shape of output      *)
(* record, evaluated more than once while Memory and TaskState change         *)

CheckedOutputs ==
    {Output(t, r, m, st, k) :
        t \in {"absent", "empty", "unmarked", "marked"},
        r \in {"absent", "none", "empty", "some"},
        m \in {"absent", "nonstring", "unmarked", "marked"},
        st \in {"absent", "false", "true"},
        k \in BOOLEAN}

InitCheck ==
    /\ task \in {[empty |-> FALSE, kws |-> {}]}
    /\ registry = ToolName
    /\ pc = "self_check"
    /\ status = "running"
    /\ \E tool \in ToolName :
          plan = <<Subtask("step-1", {}, GENERATE_TEXT, <<>>),
                   Subtask("step-2", {}, tool, <<>>)>>
    /\ \E out \in CheckedOutputs :
          provisional = SubtaskResult("step-2", SUCCEEDED, out, NoError)
    /\ subtask_results = <<>>
    /\ replans = <<>>
    /\ started = <<>>
    /\ current_subtask_id = "step-2"
    /\ tool_outputs = <<>>
    /\ history = <<>>
    /\ i = 1
    /\ replans_done = 0
    /\ result = NoResult
    /\ allow_retry = TRUE
    /\ tool_name = "none"
    /\ check = NoCheck
    /\ calls = <<>>
    /\ replan_calls = 0
    /\ validation = NoValidation
    /\ candidates = <<>>
    /\ verdicts = <<>>
    /\ traces = <<>>
    /\ _STORAGE = <<>>
    /\ saves = <<>>
    /\ saving = <<>>
    /\ request = NoRequest
    /\ response = NoResponse
    /\ faults = 0

\* one evaluation of self_check(subtask, output)
SelfCheck ==
    /\ pc = "self_check"
    /\ Len(verdicts) < MaxChecks
    /\ verdicts' = Append(verdicts, VerdictEntry(CurrentSubtask.tool, provisional.output))
    /\ check' = self_check(CurrentSubtask.tool, provisional.output)
    /\ UNCHANGED <<task, registry, pc, status, plan, subtask_results, replans,
                   started, current_subtask_id, tool_outputs, history, i,
                   replans_done, result, allow_retry, tool_name, provisional,
                   calls, replan_calls, validation, candidates, traces,
                   storeVars, requestVars, faults>>

\* between two evaluations, the result of another subtask is recorded
RecordOtherResult ==
    /\ pc = "self_check"
    /\ subtask_results = <<>>
    /\ \E st \in {SUCCEEDED, FAILED} :
          _update_after_execution(SubtaskResult("step-1", st, OutGenerated, NoError))
    /\ UNCHANGED <<task, registry, pc, status, plan, replans, started,
                   current_subtask_id, i, replans_done, result, allow_retry,
                   tool_name, provisional, check, calls, replan_calls,
                   validation, candidates, verdicts, traces, storeVars, requestVars, faults>>

NextCheck ==
    \/ SelfCheck
    \/ RecordOtherResult

SpecCheck == InitCheck /\ [][NextCheck]_vars

-----------------------------------------------------------------------------
(* _select_best_plan on its own: the lists the built-in generator produces   *)
(* and lists of candidates that differ in length and in the tools they use    *)

\* a plan of n subtasks using the search and the persistence tool or not
ShapedPlan(n, search, save) ==
    [j \in 1..n |->
        Subtask(PlanId(j), {},
                IF j = 1 /\ search THEN SEARCH_IN_FILES
                ELSE IF j = 2 /\ save THEN SAVE_OUTPUT
                ELSE GENERATE_TEXT,
                <<>>)]

PlanShapes ==
    {ShapedPlan(n, search, save) : n \in {9, 10, 11}, search \in BOOLEAN, save \in BOOLEAN}

CandidateLists ==
    {_generate_candidate_plans(kws, 3) : kws \in TaskKeywords}
    \cup UNION {{[k \in 1..n |-> [variant |-> k, subtasks |-> Variant(shapes[k], k)]] :
                    shapes \in [1..n -> PlanShapes]} : n \in 1..MaxCandidates}

InitSelect ==
    /\ task \in {[empty |-> FALSE, kws |-> {}]}
    /\ registry = ToolName
    /\ pc = "select"
    /\ status = "running"
    /\ plan = <<>>
    /\ candidates \in CandidateLists
    /\ subtask_results = <<>>
    /\ replans = <<>>
    /\ started = <<>>
    /\ current_subtask_id = "none"
    /\ tool_outputs = <<>>
    /\ history = <<>>
    /\ i = 0
    /\ replans_done = 0
    /\ result = NoResult
    /\ allow_retry = TRUE
    /\ tool_name = "none"
    /\ provisional = NoResult
    /\ check = NoCheck
    /\ calls = <<>>
    /\ replan_calls = 0
    /\ validation = NoValidation
    /\ verdicts = <<>>
    /\ traces = <<>>
    /\ _STORAGE = <<>>
    /\ saves = <<>>
    /\ saving = <<>>
    /\ request = NoRequest
    /\ response = NoResponse
    /\ faults = 0

\* create_plan line 45: plan = self._select_best_plan(candidates)
SelectBestPlan ==
    /\ pc = "select"
    /\ plan' = _select_best_plan(candidates).subtasks
    /\ pc' = "selected"
    /\ UNCHANGED <<task, registry, status, subtask_results, replans, started,
                   current_subtask_id, tool_outputs, history, i, replans_done,
                   result, allow_retry, tool_name, provisional, check, calls,
                   replan_calls, validation, candidates, verdicts, traces,
                   storeVars, requestVars, faults>>

NextSelect == SelectBestPlan

SpecSelect == InitSelect /\ [][NextSelect]_vars

-----------------------------------------------------------------------------
(* tools/save_output.py. A label or key is the sequence of its '#'-separated *)
(* segments: "a#b#1" is <<"a", "b", "1">>.                                    *)

\* payload["label"] as given: segs = <<>> for None, "" or blanks only; padded
\* when surrounded by blanks
RawLabel(segs, padded) == [segs |-> segs, padded |-> padded]

\* line 23: str(payload.get("label") or "output").strip() or "output"
NormalizedLabel(raw) == IF raw.segs = <<>> THEN <<"output">> ELSE raw.segs

\* the decimal strings that int() can have produced so far
IndexStrings == {ToString(n) : n \in 0..(MaxSaves + 1)}

\* str.isdigit() on a segment
isdigit(seg) == seg \in IndexStrings

\* int() on a segment of digits
int(seg) == CHOOSE n \in 0..(MaxSaves + 1) : ToString(n) = seg

\* k.startswith(label + "#")
startswith(k, label) ==
    /\ Len(k) > Len(label)
    /\ SubSeq(k, 1, Len(label)) = label

\* lines 25-30
existing_indices(label, storage) ==
    {int(k[Len(k)]) : k \in {k \in DOMAIN storage : startswith(k, label) /\ isdigit(k[Len(k)])}}

\* variant: the increment is missing
next_indexWithoutIncrement(label, storage) ==
    LET existing == existing_indices(label, storage)
    IN  IF existing = {} THEN 1
        ELSE CHOOSE n \in existing : \A o \in existing : o <= n

\* line 31: (max(existing_indices) + 1) if existing_indices else 1
next_index(label, storage) ==
    LET existing == existing_indices(label, storage)
    IN  IF existing = {} THEN 1
        ELSE (CHOOSE n \in existing : \A o \in existing : o <= n) + 1

\* line 32: f"{label}#{next_index}"
StorageKey(label, storage) == Append(label, ToString(next_index(label, storage)))

\* the payload of the n-th call made
Payload(raw, n) == [label |-> raw, call |-> n]

\* what a call returns and leaves in the log of returned calls
SaveRecord(raw, key, n) == [label |-> raw, key |-> key, stored |-> TRUE, call |-> n]

RawLabels ==
    {RawLabel(<<>>, FALSE), RawLabel(<<>>, TRUE), RawLabel(<<"a">>, FALSE),
     RawLabel(<<"a">>, TRUE), RawLabel(<<"a", "b">>, FALSE),
     RawLabel(<<"a", "1">>, FALSE), RawLabel(<<"output">>, FALSE)}

InitStore ==
    /\ task \in {[empty |-> FALSE, kws |-> {}]}
    /\ registry = ToolName
    /\ pc = "store"
    /\ status = "not_started"
    /\ plan = <<>>
    /\ subtask_results = <<>>
    /\ replans = <<>>
    /\ started = <<>>
    /\ current_subtask_id = "none"
    /\ tool_outputs = <<>>
    /\ history = <<>>
    /\ i = 0
    /\ replans_done = 0
    /\ result = NoResult
    /\ allow_retry = TRUE
    /\ tool_name = "none"
    /\ provisional = NoResult
    /\ check = NoCheck
    /\ calls = <<>>
    /\ replan_calls = 0
    /\ validation = NoValidation
    /\ candidates = <<>>
    /\ verdicts = <<>>
    /\ traces = <<>>
    /\ _STORAGE = <<>>
    /\ saves = <<>>
    /\ saving = <<>>
    /\ request = NoRequest
    /\ response = NoResponse
    /\ faults = 0

\* the variables the persistence tool does not touch
coreVars == <<task, registry, pc, status, plan, subtask_results, replans, started,
              current_subtask_id, tool_outputs, history, i, replans_done, result,
              allow_retry, tool_name, provisional, check, calls, replan_calls,
              validation, candidates, verdicts, traces, request, response,
              faults>>

\* one whole call of save_output(payload), lines 23-35
SaveOutput ==
    /\ Len(saves) < MaxSaves
    /\ \E raw \in RawLabels :
          LET key == StorageKey(NormalizedLabel(raw), _STORAGE)
              n == Len(saves) + 1
          IN  /\ _STORAGE' = (key :> Payload(raw, n)) @@ _STORAGE
              /\ saves' = Append(saves, SaveRecord(raw, key, n))
    /\ UNCHANGED <<coreVars, saving>>

NextStore == SaveOutput

SpecStore == InitStore /\ [][NextStore]_vars

(* two task runs calling save_output from two threads: the scan of the keys  *)
(* (lines 25-32) and the write (line 34) of one call can be separated by the  *)
(* other call's                                                               *)

Callers == {"run-1", "run-2"}

CallsMade == Len(saves) + Cardinality(DOMAIN saving)

\* lines 23-32 of a call: the key is computed from the store as it is now
SaveRead(c) ==
    /\ c \notin DOMAIN saving
    /\ CallsMade < MaxSaves
    /\ \E raw \in RawLabels :
          saving' = (c :> [label |-> raw,
                           key |-> StorageKey(NormalizedLabel(raw), _STORAGE),
                           call |-> CallsMade + 1]) @@ saving
    /\ UNCHANGED <<coreVars, _STORAGE, saves>>

\* lines 34-35 of the call: the write and the return
SaveWrite(c) ==
    /\ c \in DOMAIN saving
    /\ _STORAGE' = (saving[c].key :> Payload(saving[c].label, saving[c].call)) @@ _STORAGE
    /\ saves' = Append(saves, SaveRecord(saving[c].label, saving[c].key, saving[c].call))
    /\ saving' = [d \in DOMAIN saving \ {c} |-> saving[d]]
    /\ UNCHANGED coreVars

NextStoreConcurrent ==
    \/ \E c \in Callers : SaveRead(c)
    \/ \E c \in Callers : SaveWrite(c)

SpecStoreConcurrent == InitStore /\ [][NextStoreConcurrent]_vars

-----------------------------------------------------------------------------
(* run_task with a planner handed to AgentCore(planner=...): create_plan may  *)
(* return any plan that validate_task_plan accepts                            *)

\* valid plans of the smallest and of the three largest sizes
InjectedPlans ==
    {ShapedPlan(n, FALSE, FALSE) :
        n \in {MinPlanSize, MaxPlanSize - 2, MaxPlanSize - 1, MaxPlanSize}}

\* the state after run_task line 87 (set_plan)
InitInjected ==
    /\ task \in {[empty |-> FALSE, kws |-> {}]}
    /\ registry = ToolName
    /\ pc = "loop"
    /\ status = "running"
    /\ plan \in InjectedPlans
    /\ subtask_results = <<>>
    /\ replans = <<>>
    /\ started = <<>>
    /\ current_subtask_id = "none"
    /\ tool_outputs = <<>>
    /\ history = <<>>
    /\ i = 0
    /\ replans_done = 0
    /\ result = NoResult
    /\ allow_retry = TRUE
    /\ tool_name = "none"
    /\ provisional = NoResult
    /\ check = NoCheck
    /\ calls = <<>>
    /\ replan_calls = 0
    /\ validation = validate_task_plan(plan)
    /\ candidates = <<>>
    /\ verdicts = <<>>
    /\ traces = <<>>
    /\ _STORAGE = <<>>
    /\ saves = <<>>
    /\ saving = <<>>
    /\ request = NoRequest
    /\ response = NoResponse
    /\ faults = 0

\* every tool is registered and no subtask searches: lines 222-260 are not reached
NextInjected ==
    \/ StartSubtask
    \/ ExecSelect
    \/ ExecInvoke
    \/ AfterSubtask
    \/ FinishTask

SpecInjected == InitInjected /\ [][NextInjected]_vars

-----------------------------------------------------------------------------
(* src/agent: the loop of agent/core.py driving agent/executor.py, which has  *)
(* no router, no prompt rewriting, no fallback and no replanning              *)

\* agent/core.py lines 77-79: start_task, planner.plan, set_plan
AgentRunTaskPlan ==
    /\ pc = "idle"
    /\ status' = "running"
    /\ validation' = validate_task_plan(_fake_llm_plan(task.kws))
    /\ IF validate_task_plan(_fake_llm_plan(task.kws)).rule = "ok"
       THEN /\ plan' = _fake_llm_plan(task.kws)
            /\ pc' = "loop"
       ELSE /\ plan' = plan
            /\ pc' = "plan_rejected"
    /\ i' = 0
    /\ UNCHANGED <<task, registry, subtask_results, replans, started,
                   current_subtask_id, tool_outputs, history, replans_done, result,
                   allow_retry, tool_name, provisional, check, calls,
                   replan_calls, candidates, verdicts, traces, storeVars, requestVars,
                   faults>>

\* agent/core.py lines 83-95: loop head up to the call of run_subtask
AgentStartSubtask ==
    /\ pc = "loop"
    /\ i < Len(plan)
    /\ started' = Append(started, CurrentSubtask.id)
    /\ current_subtask_id' = CurrentSubtask.id
    /\ allow_retry' = TRUE
    /\ calls' = <<>>
    /\ tool_name' = CurrentSubtask.tool
    /\ pc' = "execute"
    /\ UNCHANGED <<task, registry, status, plan, subtask_results, replans,
                   tool_outputs, history, i, replans_done, result, provisional,
                   check, replan_calls, validation, candidates, verdicts, traces,
                   storeVars, requestVars, faults>>

\* agent/executor.py lines 72-83: the declared tool is not registered
AgentExecuteMiss ==
    /\ pc = "execute"
    /\ tool_name \notin registry
    /\ LET res == SubtaskResult(CurrentSubtask.id, FAILED, OutEmpty, RegistryMissError(tool_name))
       IN  /\ _update_after_execution(res)
           /\ result' = res
    /\ pc' = "returned"
    /\ UNCHANGED <<task, registry, status, plan, replans, started, current_subtask_id,
                   i, replans_done, allow_retry, tool_name, provisional, check, calls,
                   replan_calls, validation, candidates, verdicts, traces,
                   storeVars, requestVars, faults>>

\* agent/executor.py lines 85-129: tool call, self-check, single retry, record
AgentExecute ==
    /\ pc = "execute"
    /\ tool_name \in registry
    /\ \E oc \in Outcomes :
        LET subtask == CurrentSubtask
            prov == SubtaskResult(subtask.id, SUCCEEDED, oc.output, NoError)
            chk == self_check(subtask.tool, oc.output)
        IN  /\ CountFault(tool_name, oc)
            /\ calls' = Append(calls, Invocation(tool_name, "primary", oc,
                                   _build_payload(subtask, tool_name, tool_outputs)))
            /\ IF oc.raised
               THEN LET res == SubtaskResult(subtask.id, FAILED, OutEmpty, ExceptionError(oc.exc))
                    IN  /\ _update_after_execution(res)
                        /\ result' = res
                        /\ pc' = "returned"
                        /\ UNCHANGED <<allow_retry, provisional, check>>
               ELSE IF chk.success
               THEN /\ _update_after_execution(prov)
                    /\ result' = prov
                    /\ provisional' = prov
                    /\ check' = chk
                    /\ pc' = "returned"
                    /\ UNCHANGED allow_retry
               ELSE IF allow_retry /\ chk.retry
               THEN /\ allow_retry' = RetryAllowRetry(allow_retry)
                    /\ RetryAttempt(prov, chk)
                    /\ pc' = "execute"
               ELSE LET res == [prov EXCEPT !.status = FAILED, !.error = SelfCheckError(chk)]
                    IN  /\ _update_after_execution(res)
                        /\ result' = res
                        /\ provisional' = res
                        /\ check' = chk
                        /\ pc' = "returned"
                        /\ UNCHANGED allow_retry
    /\ UNCHANGED <<task, registry, status, plan, replans, started, current_subtask_id,
                   i, replans_done, tool_name, replan_calls, validation, candidates,
                   verdicts, traces, storeVars, requestVars>>

\* agent/core.py lines 98-99: memory.record_result and state.finish_subtask
\* with the result the executor returned
AgentRecordResult ==
    /\ pc = "returned"
    /\ _update_after_execution(result)
    /\ i' = i + 1
    /\ pc' = "loop"
    /\ UNCHANGED <<task, registry, status, plan, replans, started, current_subtask_id,
                   replans_done, result, allow_retry, tool_name, provisional, check,
                   calls, replan_calls, validation, candidates, verdicts, traces,
                   storeVars, requestVars, faults>>

NextAgent ==
    \/ AgentRunTaskPlan
    \/ AgentStartSubtask
    \/ AgentExecuteMiss
    \/ AgentExecute
    \/ AgentRecordResult
    \/ FinishTask

SpecAgent == Init /\ [][NextAgent]_vars

-----------------------------------------------------------------------------
(* api/app.py: POST /run. A message is the sequence of its parts.            *)

\* fastapi.HTTPException(status_code, detail)
HTTPException(code, detail) == [status_code |-> code, detail |-> detail]

\* str(exc) of an HTTPException: "<status_code>: <detail>"
HTTPExceptionText(exc) == <<ToString(exc.status_code) \o ": ">> \o exc.detail

\* run_task lines 189-192
UnsupportedModel(model) ==
    HTTPException(400, <<"Unsupported model: ", model,
                         ". Currently only 'mock' is supported.">>)

\* run_task lines 237-242: except Exception, which an HTTPException is too
ExecutionFailed(text) == HTTPException(500, <<"Task execution failed: ">> \o text)

\* http_exception_handler, lines 84-100
http_exception_handler(exc) ==
    [status_code |-> exc.status_code, error |-> exc.detail, status |-> "none", steps |-> 0]

\* run_task lines 207-235: one step per entry of result["results"]
RunResponse(st, results) ==
    [status_code |-> 200, error |-> <<>>, status |-> st, steps |-> Len(results)]

\* schemas/run_request.py: TaskSettings.max_steps (1..50, default 15) and
\* enable_replanning (default True); RunRequest.model is any string
RunRequests ==
    [model : {"mock", "invalid-model"}, max_steps : {1, 5, 15}, enable_replanning : BOOLEAN]

\* RunRequest.task has at least 10 characters
RunTasks == {t \in Tasks : ~t.empty}

InitRun ==
    /\ task \in RunTasks
    /\ registry = ToolName
    /\ pc = "request"
    /\ status = "not_started"
    /\ plan = <<>>
    /\ subtask_results = <<>>
    /\ replans = <<>>
    /\ started = <<>>
    /\ current_subtask_id = "none"
    /\ tool_outputs = <<>>
    /\ history = <<>>
    /\ i = 0
    /\ replans_done = 0
    /\ result = NoResult
    /\ allow_retry = TRUE
    /\ tool_name = "none"
    /\ provisional = NoResult
    /\ check = NoCheck
    /\ calls = <<>>
    /\ replan_calls = 0
    /\ validation = NoValidation
    /\ candidates = <<>>
    /\ verdicts = <<>>
    /\ traces = <<>>
    /\ _STORAGE = <<>>
    /\ saves = <<>>
    /\ saving = <<>>
    /\ request \in RunRequests
    /\ response = NoResponse
    /\ faults = 0

\* the variables of the engine that the endpoint itself leaves alone
engineVars == <<task, registry, status, plan, subtask_results, replans, started,
                current_subtask_id, tool_outputs, history, i, replans_done, result,
                allow_retry, tool_name, provisional, check, calls, replan_calls,
                validation, candidates, verdicts, traces, storeVars, faults>>

\* run_task lines 183-198: the agent is created for the model "mock" only
RunDispatch ==
    /\ pc = "request"
    /\ IF request.model = "mock"
       THEN /\ pc' = "idle"
            /\ UNCHANGED response
       ELSE /\ response' = http_exception_handler(
                               ExecutionFailed(HTTPExceptionText(UnsupportedModel(request.model))))
            /\ pc' = "responded"
    /\ UNCHANGED <<engineVars, request>>

\* run_task lines 198-242: agent.run_task has returned or raised
RunRespond ==
    /\ request # NoRequest
    /\ pc \in {"done", "raised", "plan_rejected"}
    /\ response' = CASE pc = "done" -> RunResponse(status, subtask_results)
                     [] pc = "raised" ->
                            http_exception_handler(ExecutionFailed(<<"TypeError">>))
                     [] pc = "plan_rejected" ->
                            http_exception_handler(ExecutionFailed(<<"ValueError">>))
    /\ pc' = "responded"
    /\ UNCHANGED <<engineVars, request>>

\* the agent of the endpoint has every tool registered: the router keeps the
\* declared tool, a failed search is retried with allow_retry = False and no
\* other tool has a fallback, so lines 222-260 are not reached
NextRun ==
    \/ RunDispatch
    \/ RunTaskPlan
    \/ StartSubtask
    \/ ExecSelect
    \/ ExecInvoke
    \/ AfterSubtask
    \/ FinishTask
    \/ RunRespond

SpecRun == InitRun /\ [][NextRun]_vars

-----------------------------------------------------------------------------
(* Properties *)

PrimaryCalls == {k \in 1..Len(calls) : calls[k].kind = "primary"}

FallbackCalls == {k \in 1..Len(calls) : calls[k].kind = "fallback"}

InCall == pc \in {"execute", "invoke", "fallback", "returned"}

Failures(results) == {k \in 1..Len(results) : results[k].status = FAILED}

Successes(results) == {k \in 1..Len(results) : results[k].status = SUCCEEDED}

Occurrences(seq, id) == Cardinality({k \in 1..Len(seq) : seq[k].subtask_id = id})

InitialPlanLength == Len(create_plan(PlanningTask(task)).subtasks)

\* C1: however many subtasks fail, metadata["replans"] holds at most one entry
\* and the plan grows by at most the two recovery subtasks.
C1_ReplanAtMostOnce ==
    /\ Len(replans) <= 1
    /\ pc \notin {"idle", "plan_rejected"} => Len(plan) <= InitialPlanLength + 2
    /\ pc = "done" => Len(plan) = InitialPlanLength + 2 * Len(replans)

\* a finished run in which an original and a recovery subtask failed
C1_Witness ==
    /\ pc = "done"
    /\ Len(replans) = 1
    /\ \E k \in Failures(subtask_results) : k <= InitialPlanLength
    /\ \E k \in Failures(subtask_results) : k > InitialPlanLength

ZeroResults(oc) == ~oc.raised /\ oc.output.results # "some"

\* C2: a search subtask whose registered search tool returns zero results on
\* every call has that tool invoked exactly twice, and a search subtask never
\* has it invoked more than twice.
C2_SearchRetriedExactlyOnce ==
    (InCall /\ CurrentSubtask.tool = SEARCH_IN_FILES /\ SEARCH_IN_FILES \in registry) =>
        /\ Cardinality(PrimaryCalls) <= 2
        /\ \A k \in PrimaryCalls : calls[k].tool = SEARCH_IN_FILES
        /\ (pc = "returned" /\ \A k \in PrimaryCalls : ZeroResults(calls[k].outcome)) =>
               Cardinality(PrimaryCalls) = 2

C2_Witness ==
    /\ pc = "returned"
    /\ CurrentSubtask.tool = SEARCH_IN_FILES
    /\ Cardinality(PrimaryCalls) = 2
    /\ \A k \in PrimaryCalls : ZeroResults(calls[k].outcome)

FallbackSucceeded ==
    \E k \in FallbackCalls :
        /\ ~calls[k].outcome.raised
        /\ self_check(calls[k].tool, calls[k].outcome.output).success

\* C3: when the fallback tool was invoked and the self-check of its output
\* succeeds, the result returned and recorded is succeeded with no error.
C3_FallbackSuccessIsSuccess ==
    (pc = "returned" /\ FallbackSucceeded) =>
        /\ result.status = SUCCEEDED
        /\ result.error = NoError
        /\ subtask_results[Len(subtask_results)] = result

\* C4: a search subtask whose self-check failed on the first attempt and on
\* the retry, with the generation tool registered, has the fallback tool
\* invoked exactly once before the terminal result.
C4_FallbackAfterRetry ==
    ( /\ pc = "returned"
      /\ CurrentSubtask.tool = SEARCH_IN_FILES
      /\ SEARCH_IN_FILES \in registry
      /\ GENERATE_TEXT \in registry
      /\ Cardinality(PrimaryCalls) = 2
      /\ \A k \in PrimaryCalls :
            /\ ~calls[k].outcome.raised
            /\ ~self_check(CurrentSubtask.tool, calls[k].outcome.output).success ) =>
        /\ Cardinality(FallbackCalls) = 1
        /\ \A k \in FallbackCalls : calls[k].tool = GENERATE_TEXT

PrimaryRaised ==
    /\ pc = "returned"
    /\ calls # <<>>
    /\ calls[Len(calls)].kind = "primary"
    /\ calls[Len(calls)].outcome.raised

\* C5: when the primary tool raises (first attempt or retry) the call returns a
\* failed result whose error carries the exception text, recorded exactly once
\* in TaskState.subtask_results and exactly once in Memory.history.
C5_ToolExceptionRecordedOnce ==
    PrimaryRaised =>
        /\ result.status = FAILED
        /\ result.subtask_id = CurrentSubtask.id
        /\ result.error.text = calls[Len(calls)].outcome.exc
        /\ Occurrences(subtask_results, CurrentSubtask.id) = 1
        /\ Occurrences(history, CurrentSubtask.id) = 1
        /\ subtask_results[Len(subtask_results)] = result
        /\ history[Len(history)] = HistoryEvent(result)

\* the exception is raised by the retry attempt
C5_Witness ==
    /\ PrimaryRaised
    /\ Len(calls) = 2
    /\ ~calls[1].outcome.raised

\* top-level execute_subtask calls that have reached their terminal outcome
CompletedCalls == IF pc = "returned" THEN i + 1 ELSE i

C7_ResultsMatchPlan ==
    pc = "done" =>
        /\ Len(subtask_results) = Len(plan)
        /\ \A k \in 1..Len(plan) : subtask_results[k].subtask_id = plan[k].id

\* a finished run whose plan was extended by replanning
C7_Witness ==
    /\ pc = "done"
    /\ Len(replans) = 1
    /\ Len(plan) = 7
    /\ Len(subtask_results) = 7

\* C8: finish_task sets succeeded iff the results are non-empty and all
\* succeeded, partial_success iff some succeeded and some failed, failed iff
\* none succeeded; never not_started or running.
C8_FinishTaskStatus ==
    pc = "done" =>
        /\ status \in {"succeeded", "partial_success", "failed"}
        /\ status = "succeeded" <=>
              (Len(subtask_results) > 0 /\ Failures(subtask_results) = {})
        /\ status = "partial_success" <=>
              (Successes(subtask_results) # {} /\ Failures(subtask_results) # {})
        /\ status = "failed" <=> Successes(subtask_results) = {}

C8_Witness ==
    /\ pc = "done"
    /\ status = "partial_success"
    /\ Len(subtask_results) >= 2

\* C9: once planning has succeeded run_task never raises because of a
\* subtask, whatever the tools return or raise and whichever are registered.
C9_RunNeverRaises == pc # "raised"

PlanInvariants(subtasks) ==
    /\ 5 <= Len(subtasks) /\ Len(subtasks) <= 15
    /\ \A j, k \in 1..Len(subtasks) : j # k => subtasks[j].id # subtasks[k].id
    /\ \A k \in 1..Len(subtasks) :
          \A d \in 1..Len(subtasks[k].dependencies) :
             \E j \in 1..Len(subtasks) : subtasks[j].id = subtasks[k].dependencies[d]

\* C10: for every task the plan returned by create_plan has 5..15 subtasks,
\* pairwise distinct ids and only dependencies on ids of the same plan.
C10_CreatedPlanValid ==
    /\ PlanInvariants(create_plan(PlanningTask(task)).subtasks)
    /\ (pc = "loop" /\ i = 0) => PlanInvariants(plan)

\* the plan just set for a study task
C10_Witness ==
    /\ pc = "loop"
    /\ i = 0
    /\ "study" \in task.kws
    /\ plan = create_plan(PlanningTask(task)).subtasks
    /\ \E k \in 1..Len(plan) : Len(plan[k].dependencies) > 0

Validated == pc \in {"validated", "plan_rejected"}

CountInRange(subtasks) == 5 <= Len(subtasks) /\ Len(subtasks) <= 15

IdsUnique(subtasks) ==
    \A j, k \in 1..Len(subtasks) : j # k => subtasks[j].id # subtasks[k].id

IsUnknown(subtasks, d) == \A j \in 1..Len(subtasks) : subtasks[j].id # d

\* the unknown dependency ids of subtask k
UnknownOf(subtasks, k) ==
    {subtasks[k].dependencies[d] : d \in 1..Len(subtasks[k].dependencies)}
        \cap {x \in {subtasks[k].dependencies[d] : d \in 1..Len(subtasks[k].dependencies)} :
                 IsUnknown(subtasks, x)}

HasUnknownDependency(subtasks) == \E k \in 1..Len(subtasks) : UnknownOf(subtasks, k) # {}

\* C11 as stated: a plan with an unknown dependency id is always rejected with
\* an error naming an unknown dependency id, whatever its count and ids.
C11_UnknownDependencyNamed ==
    (Validated /\ HasUnknownDependency(plan)) =>
        /\ validation.rule \in {"count", "duplicate", "dependency"}
        /\ \E d \in 1..Len(validation.unknown) : IsUnknown(plan, validation.unknown[d])

\* C11 amended: a plan with an unknown dependency id is always rejected; when
\* it has 5..15 subtasks and unique ids the error is the dependency error, and
\* it names the first subtask with unknown dependencies and exactly that
\* subtask's unknown ids.
C11_UnknownDependencyRejected ==
    (Validated /\ HasUnknownDependency(plan)) =>
        /\ pc = "plan_rejected"
        /\ validation.rule \in {"count", "duplicate", "dependency"}
        /\ (CountInRange(plan) /\ IdsUnique(plan)) =>
              /\ validation.rule = "dependency"
              /\ \E k \in 1..Len(plan) :
                    /\ validation.subtask = plan[k].id
                    /\ SeqToSet(validation.unknown) = UnknownOf(plan, k)
                    /\ UnknownOf(plan, k) # {}
                    /\ \A j \in 1..(k - 1) : UnknownOf(plan, j) = {}

\* the second subtask is the first one with unknown dependencies
C11_Witness ==
    /\ pc = "plan_rejected"
    /\ validation.rule = "dependency"
    /\ Len(plan) >= 5
    /\ Len(plan[1].dependencies) > 0
    /\ UnknownOf(plan, 1) = {}
    /\ validation.subtask = plan[2].id
    /\ Len(validation.unknown) = 2

\* C12: a plan holding two subtasks with the same id is always rejected,
\* whatever its count and whether or not its dependencies resolve.
C12_DuplicateIdRejected ==
    (Validated /\ ~IdsUnique(plan)) =>
        /\ pc = "plan_rejected"
        /\ validation.rule \in {"count", "duplicate"}

\* a repeated id in a plan of valid count whose dependencies all resolve
C12_Witness ==
    /\ pc = "plan_rejected"
    /\ ~IdsUnique(plan)
    /\ CountInRange(plan)
    /\ ~HasUnknownDependency(plan)
    /\ validation.rule = "duplicate"

\* C13: validate_task_plan raises iff the count is outside 5..15, an id is
\* repeated or a dependency is unresolved; self, cyclic and forward
\* dependencies are accepted.
C13_RejectedIffRuleViolated ==
    Validated =>
        /\ (pc = "validated") <=>
              (CountInRange(plan) /\ IdsUnique(plan) /\ ~HasUnknownDependency(plan))
        /\ (pc = "validated") <=> (validation.rule = "ok")

\* accepted: subtask 1 depends on itself and on the later subtask 2, which
\* depends on subtask 1
C13_Witness ==
    /\ pc = "validated"
    /\ Len(plan) = 5
    /\ plan[1].dependencies = <<plan[1].id, plan[2].id>>
    /\ plan[2].dependencies = <<plan[1].id>>

\* C14: the rules are checked in the order count, uniqueness, dependencies and
\* the error is that of the first violated rule: the count error carries the
\* actual count, a valid count with a repeated id gives the uniqueness error.
C14_FirstViolatedRule ==
    Validated =>
        /\ ~CountInRange(plan) =>
              (validation.rule = "count" /\ validation.count = Len(plan))
        /\ (CountInRange(plan) /\ ~IdsUnique(plan)) => validation.rule = "duplicate"
        /\ (CountInRange(plan) /\ IdsUnique(plan) /\ HasUnknownDependency(plan)) =>
              validation.rule = "dependency"

\* too many subtasks, a repeated id and an unknown dependency at once
C14_Witness ==
    /\ pc = "plan_rejected"
    /\ Len(plan) > 15
    /\ ~IdsUnique(plan)
    /\ HasUnknownDependency(plan)
    /\ validation.rule = "count"

\* C15: in a run, Planner.replan is invoked at most once, and only once some
\* recorded result is failed; later failures never invoke it again.
C15_ReplanInvokedAtMostOnce ==
    /\ replan_calls <= 1
    /\ replan_calls = 1 => Failures(subtask_results) # {}

\* a step of run_task that records a replanning event
Replanned == Len(replans') = Len(replans) + 1

\* the step follows a failed result, which is the last one recorded
AfterFailedResult ==
    /\ pc = "returned"
    /\ result.status = FAILED
    /\ Len(subtask_results) = i + 1
    /\ subtask_results[i + 1] = result

\* two subtasks are appended; the plan so far and the results are untouched
AppendedAtEnd ==
    /\ Len(plan') = Len(plan) + 2
    /\ SubSeq(plan', 1, Len(plan)) = plan
    /\ subtask_results' = subtask_results
    /\ started' = started

\* the new replans entry holds the given reason and the appended ids
EntryRecorded(reason) ==
    replans' = Append(replans,
                      [reason |-> reason,
                       recovery_subtasks |->
                           <<plan'[Len(plan) + 1].id, plan'[Len(plan) + 2].id>>])

\* at the end of a run that replanned, the last two results are those of the
\* recovery subtasks, in order, after a result for every earlier subtask
RecoveryExecutedLast ==
    (pc = "done" /\ Len(replans) = 1) =>
        LET n == Len(subtask_results)
        IN  /\ n = Len(plan)
            /\ n >= 2
            /\ started = Ids(plan)
            /\ \A k \in 1..n : subtask_results[k].subtask_id = plan[k].id
            /\ <<plan[n - 1].id, plan[n].id>> = replans[1].recovery_subtasks

\* the error of a failed result is absent or the empty string
EmptyError(res) == res.error = NoError \/ (res.error.prefix = "" /\ res.error.text = "")

DependencyPositions(k) ==
    {j \in 1..Len(plan) : \E d \in 1..Len(plan[k].dependencies) :
                              plan[k].dependencies[d] = plan[j].id}

IsRegistryMiss(res) ==
    /\ res.status = FAILED
    /\ res.error.prefix = "No tool registered for "
    /\ res.error.text \in ToolName
    /\ res.error.text \notin registry

\* C18: when the tool chosen by the router is not in the registry,
\* execute_subtask invokes no tool, returns a failed result whose error says
\* that no tool is registered for that tool, records it once and does not
\* raise, so the loop goes on with the next subtask.
C18_RegistryMissRecorded ==
    /\ pc \in {"invoke", "fallback", "raised"} => tool_name \in registry
    /\ (pc = "returned" /\ tool_name \notin registry) =>
          /\ calls = <<>>
          /\ IsRegistryMiss(result)
          /\ result.error.text = tool_name
          /\ result.subtask_id = plan[i + 1].id
          /\ Len(subtask_results) = i + 1
          /\ subtask_results[i + 1] = result
          /\ Occurrences(subtask_results, result.subtask_id) = 1
          /\ Len(history) = i + 1
          /\ history[i + 1].subtask_id = result.subtask_id
          /\ history[i + 1].status = FAILED
    /\ (pc = "returned" /\ tool_name \in registry) => calls # <<>>
    /\ \A k \in 1..Len(subtask_results) :
          (subtask_results[k].error.prefix = "No tool registered for ")
              => IsRegistryMiss(subtask_results[k])

\* a finished run in which a registry miss was followed by a successful subtask
C18_Witness ==
    /\ pc = "done"
    /\ \E k \in 1..Len(subtask_results) :
          /\ IsRegistryMiss(subtask_results[k])
          /\ \E j \in Successes(subtask_results) : j > k

Routed == pc \in {"invoke", "fallback", "returned", "raised"}

HasAny(desc, words) == desc \cap words # {}

\* C19: choose_tool returns the declared tool whenever it is registered, and
\* otherwise the first matching class of the description in the order
\* search/lookup, save/store, modify/transform/refine, else generation; the
\* routing step changes neither Memory nor TaskState.
C19_ChooseTool ==
    /\ [](Routed =>
            LET subtask == plan[i + 1]
            IN  /\ subtask.tool \in registry => tool_name = subtask.tool
                /\ subtask.tool \notin registry =>
                      /\ HasAny(subtask.desc, {"search", "lookup"})
                            => tool_name = SEARCH_IN_FILES
                      /\ (~HasAny(subtask.desc, {"search", "lookup"})
                          /\ HasAny(subtask.desc, {"save", "store"}))
                            => tool_name = SAVE_OUTPUT
                      /\ (~HasAny(subtask.desc, {"search", "lookup", "save", "store"})
                          /\ HasAny(subtask.desc, {"modify", "transform", "refine"}))
                            => tool_name = MODIFY_DATA
                      /\ ~HasAny(subtask.desc, RoutingKeywords)
                            => tool_name = GENERATE_TEXT)
    /\ [][(pc = "execute" /\ pc' = "invoke") =>
             UNCHANGED <<status, plan, subtask_results, replans, started,
                         current_subtask_id, tool_outputs, history>>]_vars

\* the declared tool is missing and the description matches both the search
\* and the save class: the search tool was chosen and invoked
C19_Witness ==
    /\ pc = "returned"
    /\ plan[1].tool = MODIFY_DATA
    /\ MODIFY_DATA \notin registry
    /\ plan[1].desc = {"lookup", "store"}
    /\ tool_name = SEARCH_IN_FILES
    /\ PrimaryCalls # {}

\* C20: within one execute_subtask call the primary tool is invoked a second
\* time only if it is the search tool; the generation, transform and
\* persistence tools are never invoked twice, whatever their output.
C20_RetryOnlyForSearch ==
    /\ Cardinality(PrimaryCalls) >= 2 => tool_name = SEARCH_IN_FILES
    /\ \A k \in PrimaryCalls : calls[k].tool = tool_name

RecordedBefore == {subtask_results[j].subtask_id : j \in 1..i}

\* C26: at every tool invocation (first attempt, retry or fallback) the
\* payload's previous_outputs is the Memory output map of that moment: the
\* recorded output of every subtask whose result is recorded so far, whether
\* or not a declared dependency, and nothing for the subtask being executed.
C26_PreviousOutputsFull ==
    InCall =>
        \A k \in 1..Len(calls) :
            LET previous_outputs == calls[k].payload.previous_outputs
            IN  /\ calls[k].payload.subtask_id = CurrentSubtask.id
                /\ DOMAIN previous_outputs = RecordedBefore
                /\ \A j \in 1..i :
                      previous_outputs[subtask_results[j].subtask_id] = subtask_results[j].output
                /\ CurrentSubtask.id \notin DOMAIN previous_outputs

\* a retried invocation whose payload holds outputs of subtasks that are not
\* dependencies, one of them the output of a failed subtask
C26_Witness ==
    /\ pc = "returned"
    /\ Cardinality(PrimaryCalls) = 2
    /\ \E id \in DOMAIN calls[2].payload.previous_outputs :
          id \notin SeqToSet(CurrentSubtask.dependencies)
    /\ \E j \in 1..i : subtask_results[j].status = FAILED
    /\ Len(CurrentSubtask.dependencies) > 0

TraceCount(type) == Cardinality({k \in 1..Len(traces) : traces[k] = type})

\* C27: when the primary tool raises, the call goes straight to its failed
\* result: no self-check is evaluated for that attempt, no tool is invoked
\* afterwards (no retry, no fallback) and no observation event is recorded
\* for that attempt.
C27_RaiseShortCircuits ==
    InCall =>
        \A k \in PrimaryCalls :
            calls[k].outcome.raised =>
                /\ k = Len(calls)
                /\ pc = "returned"
                /\ FallbackCalls = {}
                /\ Len(verdicts) = k - 1
                /\ TraceCount("observation") = k - 1
                /\ traces[Len(traces)] = "action"
                /\ result.status = FAILED
                /\ result.error.text = calls[k].outcome.exc

\* the retry of a search raised after the first attempt returned no results
C27_Witness ==
    /\ PrimaryRaised
    /\ Len(calls) = 2
    /\ Len(verdicts) = 1
    /\ verdicts[1].verdict.retry
    /\ traces = <<"thought", "action", "observation", "critique", "thought", "action">>

FallbackRaised ==
    /\ pc = "returned"
    /\ calls # <<>>
    /\ calls[Len(calls)].kind = "fallback"
    /\ calls[Len(calls)].outcome.raised

\* C28: when the fallback tool raises, the call still returns, and the
\* recorded result is failed with the error 'Fallback tool error: ' followed
\* by the exception's text.
C28_FallbackExceptionReported ==
    FallbackRaised =>
        /\ result.status = FAILED
        /\ subtask_results[Len(subtask_results)] = result
        /\ result.error.prefix = "Fallback tool error: "
        /\ result.error.text = calls[Len(calls)].outcome.exc

\* the score of candidate k as the scoring rule states it
CandidateScore(k) ==
    LET subtasks == candidates[k].subtasks
        n == Len(subtasks)
    IN  (IF \E j \in 1..n : subtasks[j].tool = SEARCH_IN_FILES THEN 2 ELSE 0)
        + (IF \E j \in 1..n : subtasks[j].tool = SAVE_OUTPUT THEN 2 ELSE 0)
        + (IF n <= 10 THEN n ELSE 10)

\* the candidates are those of the built-in generator for some task
BuiltInCandidates ==
    \E kws \in TaskKeywords : candidates = _generate_candidate_plans(kws, 3)

\* C29: the plan selected is a candidate of maximal score, score = 2 if a
\* search tool occurs + 2 if a persistence tool occurs + min(count, 10); among
\* candidates of maximal score it is the first, so for the candidates of the
\* built-in generator it is candidate 1, whose descriptions have no suffix.
C29_BestPlanFirstMaximal ==
    pc = "selected" =>
        /\ \E k \in 1..Len(candidates) :
              /\ plan = candidates[k].subtasks
              /\ \A j \in 1..Len(candidates) : CandidateScore(j) <= CandidateScore(k)
              /\ \A j \in 1..(k - 1) : CandidateScore(j) < CandidateScore(k)
        /\ BuiltInCandidates =>
              /\ plan = candidates[1].subtasks
              /\ \A j \in 1..Len(plan) : plan[j].desc \cap (VariantSuffix(2) \cup VariantSuffix(3)) = {}

\* the second and third candidates tie above the first: the second is selected
C29_Witness ==
    /\ pc = "selected"
    /\ Len(candidates) = 3
    /\ CandidateScore(1) < CandidateScore(2)
    /\ CandidateScore(2) = CandidateScore(3)
    /\ Len(candidates[2].subtasks) # Len(candidates[3].subtasks)
    /\ plan = candidates[2].subtasks
    /\ plan # candidates[3].subtasks

\* C30: once start_task has been called, whatever the task string, every call
\* of Planner.replan returns the fixed recovery plan (so each call made by
\* run_task appends it): a first step without dependencies and a persistence
\* step depending only on the first.
C30_ReplanAfterStart ==
    /\ replan_calls = Len(replans)
    /\ \A k \in 1..Len(replans) :
          LET n == Len(plan)
          IN  /\ replans[k].recovery_subtasks = <<plan[n - 1].id, plan[n].id>>
              /\ plan[n - 1].dependencies = <<>>
              /\ plan[n].tool = SAVE_OUTPUT
              /\ plan[n].dependencies = <<plan[n - 1].id>>

\* C23: after any sequence of save_output calls the returned keys are pairwise
\* distinct, each is in the storage snapshot, every call returned stored =
\* true, and no call overwrote an earlier entry: the store holds one entry per
\* call, each with the payload of its call.
C23_SavedKeysDistinct ==
    /\ \A j, k \in 1..Len(saves) : j # k => saves[j].key # saves[k].key
    /\ \A k \in 1..Len(saves) :
          /\ saves[k].key \in DOMAIN _STORAGE
          /\ saves[k].stored
          /\ _STORAGE[saves[k].key] = [label |-> saves[k].label, call |-> k]
    /\ Cardinality(DOMAIN _STORAGE) = Len(saves)

\* the same label twice, then a label that is a '#'-prefix of neither
C23_Witness ==
    /\ Len(saves) = 3
    /\ saves[1].label = saves[2].label
    /\ saves[1].label.segs = <<"a", "1">>
    /\ saves[3].label.segs = <<"a">>
    /\ Cardinality(DOMAIN _STORAGE) = 3

\* C24: two save_output calls that overlap and carry the same label still
\* return different keys and both payloads stay in the store.
C24_ConcurrentSavesDistinct ==
    \A j, k \in 1..Len(saves) :
        (j # k /\ saves[j].label = saves[k].label) =>
            /\ saves[j].key # saves[k].key
            /\ _STORAGE[saves[j].key].call = saves[j].call
            /\ _STORAGE[saves[k].key].call = saves[k].call

\* saves under the same label returned before call k
EarlierSameLabel(k) ==
    {j \in 1..(k - 1) : NormalizedLabel(saves[j].label) = NormalizedLabel(saves[k].label)}

\* C25: the key is the label, '#', and a per-label counter: the suffix is
\* greater than every suffix returned before for that label and depends only
\* on the earlier saves under that label, so it is their number plus one.
C25_PerLabelCounter ==
    \A k \in 1..Len(saves) :
        /\ SubSeq(saves[k].key, 1, Len(saves[k].key) - 1) = NormalizedLabel(saves[k].label)
        /\ \A j \in EarlierSameLabel(k) :
              int(saves[j].key[Len(saves[j].key)]) < int(saves[k].key[Len(saves[k].key)])
        /\ saves[k].key[Len(saves[k].key)] = ToString(Cardinality(EarlierSameLabel(k)) + 1)

\* the invocations of the primary tool that returned, by position in the call
ReturnedAttempts ==
    {k \in 1..Len(calls) : calls[k].kind = "primary" /\ ~calls[k].outcome.raised}

\* C31: every attempt whose tool is registered and returns leaves a thought,
\* an action and an observation event, in this order; a critique event is
\* recorded only after a failed self-check, right after that attempt's
\* observation and before the first event of the retry attempt.
C31_TraceOrder ==
    /\ \A k \in ReturnedAttempts :
          /\ Len(traces) >= 4 * (k - 1) + 3
          /\ SubSeq(traces, 4 * (k - 1) + 1, 4 * (k - 1) + 3)
                = <<"thought", "action", "observation">>
          /\ ~verdicts[k].verdict.success =>
                /\ Len(traces) >= 4 * k
                /\ traces[4 * k] = "critique"
    /\ \A p \in 1..Len(traces) :
          traces[p] = "critique" =>
              \E k \in ReturnedAttempts : p = 4 * k /\ ~verdicts[k].verdict.success
    /\ \A p \in 2..Len(traces) :
          traces[p] = "thought" => traces[p - 1] = "critique"

\* a retry after a failed self-check, whose tool returned as well
C31_Witness ==
    /\ ReturnedAttempts = {1, 2}
    /\ ~verdicts[1].verdict.success
    /\ verdicts[2].verdict.success
    /\ traces = <<"thought", "action", "observation", "critique",
                  "thought", "action", "observation">>

\* C32: POST /run with a model other than 'mock' is answered with status 400
\* and an error that names the model, and nothing is planned or executed for
\* the request.
C32_UnsupportedModelIs400 ==
    (pc = "responded" /\ request.model # "mock") =>
        /\ response.status_code = 400
        /\ \E p \in 1..Len(response.error) : response.error[p] = request.model
        /\ plan = <<>>
        /\ started = <<>>
        /\ subtask_results = <<>>

\* C33: the number of steps in the response to POST /run never exceeds
\* settings.max_steps, recovery subtasks included.
C33_StepsWithinMaxSteps ==
    (pc = "responded" /\ response.status_code = 200) =>
        response.steps <= request.max_steps

\* C34: with settings.enable_replanning = false nothing is appended to the
\* plan made by create_plan and no replans entry is recorded, whatever fails.
C34_ReplanningDisabled ==
    (request # NoRequest /\ ~request.enable_replanning) =>
        /\ replans = <<>>
        /\ replan_calls = 0
        /\ plan \in {<<>>, create_plan(PlanningTask(task)).subtasks}

\* the call of run_task is over: it returned its summary, or an exception left it
Terminated == pc \in {"done", "raised", "plan_rejected"}

\* C35: run_task terminates; its loop starts at most len(initial plan) + 2
\* subtasks, and every subtask invokes its primary tool at most twice and a
\* fallback tool at most once.
C35_RunTerminatesBounded ==
    /\ <>Terminated
    /\ [](/\ Len(started) <= InitialPlanLength + 2
          /\ Cardinality(PrimaryCalls) <= 2
          /\ Cardinality(FallbackCalls) <= 1)

\* a run that replanned and has returned after the last recovery subtask
C35_Witness ==
    /\ pc = "done"
    /\ replans # <<>>
    /\ Len(started) = InitialPlanLength + 2
    /\ Len(subtask_results) = InitialPlanLength + 2

\* C36: once the plan is set, the live plan of TaskState has 5 to 15 subtasks,
\* pairwise distinct ids and only dependencies on ids of the plan, also after
\* replanning has appended the recovery subtasks.
C36_LivePlanValid ==
    plan # <<>> => PlanInvariants(plan)

\* C37: the self-check of the primary tool's output applies the heuristic of
\* the tool the router chose and that was invoked, and its retry
\* recommendation is the one of that tool's category.
C37_SelfCheckOfInvokedTool ==
    \A k \in ReturnedAttempts :
        /\ verdicts[k].tool = calls[k].tool
        /\ verdicts[k].verdict = self_check(calls[k].tool, calls[k].outcome.output)

\* the number of entries of a sequence of records made for the current subtask
RecordsOfCurrent(seq) == Occurrences(seq, CurrentSubtask.id)

\* a search whose first attempt found nothing and is being retried
SearchBeingRetried ==
    /\ pc \in {"execute", "invoke"}
    /\ Cardinality(PrimaryCalls) = 1
    /\ calls[1].tool = SEARCH_IN_FILES
    /\ ~calls[1].outcome.raised
    /\ calls[1].outcome.output.results = "empty"

\* ... and whose retry has returned a non-empty result list
SearchRetrySucceeded ==
    /\ pc = "returned"
    /\ Cardinality(PrimaryCalls) = 2
    /\ calls[1].tool = SEARCH_IN_FILES
    /\ ~calls[1].outcome.raised
    /\ calls[1].outcome.output.results = "empty"
    /\ ~calls[2].outcome.raised
    /\ calls[2].outcome.output.results = "some"

\* C38: when the first attempt of a search subtask returns zero results and
\* the retry returns a non-empty list, execute_subtask returns a succeeded
\* result with the retry's output, and the first attempt leaves no
\* SubtaskResult, no history entry and no tool output: during the retry there
\* is none for the subtask, afterwards there is exactly the retry's.
C38_RetryReplacesFirstAttempt ==
    /\ SearchBeingRetried =>
          /\ RecordsOfCurrent(subtask_results) = 0
          /\ RecordsOfCurrent(history) = 0
          /\ CurrentSubtask.id \notin DOMAIN tool_outputs
    /\ SearchRetrySucceeded =>
          /\ result.status = SUCCEEDED
          /\ result.error = NoError
          /\ result.output = calls[2].outcome.output
          /\ RecordsOfCurrent(subtask_results) = 1
          /\ subtask_results[Len(subtask_results)] = result
          /\ RecordsOfCurrent(history) = 1
          /\ history[Len(history)].status = SUCCEEDED
          /\ tool_outputs[CurrentSubtask.id] = calls[2].outcome.output

C38_Witness ==
    /\ SearchRetrySucceeded
    /\ Len(subtask_results) > 1

\* C39: a run that ends succeeded did not replan: there is no replans entry
\* and the final plan is the one create_plan returned; a run in which
\* recovery subtasks were appended ends partial_success or failed.
C39_SucceededMeansNoReplan ==
    pc = "done" =>
        /\ status = "succeeded" =>
              /\ replans = <<>>
              /\ replan_calls = 0
              /\ plan = create_plan(PlanningTask(task)).subtasks
        /\ Len(plan) > InitialPlanLength => status \in {"partial_success", "failed"}

\* a succeeded run in which a search found nothing at first and was retried
C39_Witness ==
    /\ pc = "done"
    /\ status = "succeeded"
    /\ faults > 0
    /\ Len(subtask_results) = InitialPlanLength

\* C40: in the loop of src/agent/core.py every executed subtask contributes
\* exactly one SubtaskResult and exactly one history entry, so the results of
\* the returned summary are as many as the subtasks of the plan.
C40_OneResultPerSubtask ==
    /\ \A k \in 1..Len(plan) :
          /\ Occurrences(subtask_results, plan[k].id) <= 1
          /\ Occurrences(history, plan[k].id) <= 1
          /\ (k <= i) => /\ Occurrences(subtask_results, plan[k].id) = 1
                         /\ Occurrences(history, plan[k].id) = 1
    /\ pc = "done" => Len(subtask_results) = Len(plan)

====
